---- MODULE Spec2Model ----
(***************************************************************************)
(* A model of temporenc.py: packb (encode a partially specified date/time  *)
(* to a tagged byte string) and unpackb (decode such a byte string).       *)
(*                                                                         *)
(* Python values are modelled as follows.                                  *)
(*   - An optional value is a sequence: None is << >>, the value v is      *)
(*     <<v>>.                                                              *)
(*   - A Python int used in shift/mask arithmetic is a bit vector, a       *)
(*     function from bit index (0 = least significant) to 0 or 1.  Every   *)
(*     intermediate value of the code fits the 64 bits of struct's 'Q'.    *)
(*   - A byte string is a sequence of numbers in 0..255.                   *)
(*   - The outcome of a call is a record [kind, payload]: kind names what  *)
(*     the call returned ("bytes", "Value") or the exception it raised.    *)
(***************************************************************************)
EXTENDS Integers, Sequences, FiniteSets, TLC

VARIABLES pc, op, type, kw, packed, value, unpacked

vars == <<pc, op, type, kw, packed, value, unpacked>>

None == << >>

Some(v) == <<v>>

Get(o) == o[1]

\* ------------------------------------------------------------------------
\* Python int arithmetic on bit vectors
\* ------------------------------------------------------------------------

Bits == 0..63

\* The bit vector of a non-negative number below 2^31.
BV(n) == [i \in Bits |-> IF i <= 30 THEN (n \div (2^i)) % 2 ELSE 0]

\* a << k
Shl(a, k) == [i \in Bits |-> IF i >= k THEN a[i - k] ELSE 0]

\* a >> k
Shr(a, k) == [i \in Bits |-> IF i + k <= 63 THEN a[i + k] ELSE 0]

\* a | b
Or(a, b) == [i \in Bits |-> IF a[i] = 1 \/ b[i] = 1 THEN 1 ELSE 0]

\* a & b
And(a, b) == [i \in Bits |-> IF a[i] = 1 /\ b[i] = 1 THEN 1 ELSE 0]

RECURSIVE BitsValue(_, _, _)
\* The number made of the n bits of a from bit lo upwards.
BitsValue(a, lo, n) ==
    IF n = 0 THEN 0 ELSE a[lo] + 2 * BitsValue(a, lo + 1, n - 1)

\* A bit vector that fits 31 bits, as a number.
ToInt(a) == BitsValue(a, 0, 31)

\* ------------------------------------------------------------------------
\* Byte packing helpers
\* ------------------------------------------------------------------------

\* struct.Struct('>L').pack
pack_4(a) == [j \in 1..4 |-> BitsValue(a, 8 * (4 - j), 8)]

\* struct.Struct('>Q').pack
pack_8(a) == [j \in 1..8 |-> BitsValue(a, 8 * (8 - j), 8)]

\* struct.Struct('>HQ').pack
pack_2_8(h, q) == [j \in 1..2 |-> BitsValue(h, 8 * (2 - j), 8)] \o pack_8(q)

\* bytes[-n:]
LastBytes(b, n) == SubSeq(b, Len(b) - n + 1, Len(b))

\* bytes[:n]
FirstBytes(b, n) == SubSeq(b, 1, IF Len(b) < n THEN Len(b) ELSE n)

\* The big-endian number of a byte string of at most 8 bytes, as a bit vector.
BytesToBV(b) ==
    [i \in Bits |->
        IF i \div 8 < Len(b) THEN (b[Len(b) - (i \div 8)] \div (2^(i % 8))) % 2
        ELSE 0]

\* value.rjust(4, b'\x00') unpacked as '>L'
unpack_4(b) == BytesToBV(b)

\* value.rjust(8, b'\x00') unpacked as '>Q'
unpack_8(b) == BytesToBV(b)

\* ------------------------------------------------------------------------
\* Components and types
\* ------------------------------------------------------------------------

YEAR_MIN == 0
YEAR_MAX == 4094
YEAR_EMPTY == 4095
YEAR_MASK == 4095
MONTH_MIN == 0
MONTH_MAX == 11
MONTH_EMPTY == 15
MONTH_MASK == 15
DAY_MIN == 0
DAY_MAX == 30
DAY_EMPTY == 31
DAY_MASK == 31
HOUR_MIN == 0
HOUR_MAX == 23
HOUR_EMPTY == 31
HOUR_MASK == 31
MINUTE_MIN == 0
MINUTE_MAX == 59
MINUTE_EMPTY == 63
MINUTE_MASK == 63
SECOND_MIN == 0
SECOND_MAX == 60
SECOND_EMPTY == 63
SECOND_MASK == 63
MILLISECOND_MIN == 0
MILLISECOND_MAX == 999
MILLISECOND_MASK == 1023
MICROSECOND_MIN == 0
MICROSECOND_MAX == 999999
MICROSECOND_MASK == 1048575
NANOSECOND_MIN == 0
NANOSECOND_MAX == 999999999
NANOSECOND_MASK == 1073741823

SUPPORTED_TYPES == {"D", "T", "DT", "DTZ", "DTS", "DTSZ"}

D_MASK == 2097151
T_MASK == 131071

\* ------------------------------------------------------------------------
\* Outcomes of a call
\* ------------------------------------------------------------------------

Returned(kind, payload) == [kind |-> kind, payload |-> payload]

Raised(exception) == [kind |-> exception, payload |-> << >>]

NoCall == [kind |-> "none", payload |-> << >>]

\* ------------------------------------------------------------------------
\* packb
\* ------------------------------------------------------------------------

\* A type detection that takes either a date or a time field for type DT.
DetectType_Mut(t, k) ==
    LET has_d == ~(k.year = None /\ k.month = None /\ k.day = None)
        has_t == ~(k.hour = None /\ k.minute = None /\ k.second = None)
        has_s == ~(k.millisecond = None /\ k.microsecond = None
                   /\ k.nanosecond = None)
    IN  IF t = None
        THEN IF has_s THEN "DTS"
             ELSE IF has_d \/ has_t THEN "DT"
             ELSE "D"
        ELSE IF Get(t) \notin SUPPORTED_TYPES THEN "ValueError"
        ELSE Get(t)

\* Type detection (type is None) and the check of an explicit type.
DetectType(t, k) ==
    LET has_d == ~(k.year = None /\ k.month = None /\ k.day = None)
        has_t == ~(k.hour = None /\ k.minute = None /\ k.second = None)
        has_s == ~(k.millisecond = None /\ k.microsecond = None
                   /\ k.nanosecond = None)
    IN  IF t = None
        THEN IF has_s THEN "DTS"
             ELSE IF has_d /\ has_t THEN "DT"
             ELSE IF has_d THEN "D"
             ELSE IF has_t THEN "T"
             ELSE "D"
        ELSE IF Get(t) \notin SUPPORTED_TYPES THEN "ValueError"
        ELSE Get(t)

\* An off-by-one range check: the greatest value of a field is refused.
OutOfRange_Mut(v, lo, hi) == ~(lo <= v /\ v < hi)

\* not MIN <= value <= MAX
OutOfRange(v, lo, hi) == ~(lo <= v /\ v <= hi)

\* Value checking: TRUE when some supplied field is out of its range.
RangeError(k) ==
    \/ k.year # None /\ OutOfRange(Get(k.year), YEAR_MIN, YEAR_MAX)
    \/ k.month # None /\ OutOfRange(Get(k.month) - 1, MONTH_MIN, MONTH_MAX)
    \/ k.day # None /\ OutOfRange(Get(k.day) - 1, DAY_MIN, DAY_MAX)
    \/ k.hour # None /\ OutOfRange(Get(k.hour), HOUR_MIN, HOUR_MAX)
    \/ k.minute # None /\ OutOfRange(Get(k.minute), MINUTE_MIN, MINUTE_MAX)
    \/ k.second # None /\ OutOfRange(Get(k.second), SECOND_MIN, SECOND_MAX)
    \/ k.millisecond # None
         /\ OutOfRange(Get(k.millisecond), MILLISECOND_MIN, MILLISECOND_MAX)
    \/ k.microsecond # None
         /\ OutOfRange(Get(k.microsecond), MICROSECOND_MIN, MICROSECOND_MAX)
    \/ k.nanosecond # None
         /\ OutOfRange(Get(k.nanosecond), NANOSECOND_MIN, NANOSECOND_MAX)

\* The checked fields as stored: the sentinel for None, month and day 0-based.
Checked(k) ==
    [year   |-> IF k.year = None THEN YEAR_EMPTY ELSE Get(k.year),
     month  |-> IF k.month = None THEN MONTH_EMPTY ELSE Get(k.month) - 1,
     day    |-> IF k.day = None THEN DAY_EMPTY ELSE Get(k.day) - 1,
     hour   |-> IF k.hour = None THEN HOUR_EMPTY ELSE Get(k.hour),
     minute |-> IF k.minute = None THEN MINUTE_EMPTY ELSE Get(k.minute),
     second |-> IF k.second = None THEN SECOND_EMPTY ELSE Get(k.second)]

\* d = year << 9 | month << 5 | day
PackD(c) == Or(Or(Shl(BV(c.year), 9), Shl(BV(c.month), 5)), BV(c.day))

\* A time component with the minute shifted one bit short.
PackT_Mut(c) ==
    Or(Or(Shl(BV(c.hour), 12), Shl(BV(c.minute), 5)), BV(c.second))

\* t = hour << 12 | minute << 6 | second
PackT(c) == Or(Or(Shl(BV(c.hour), 12), Shl(BV(c.minute), 6)), BV(c.second))

\* pack_4(0x800000 | d)[-3:]
PackTypeD(d) == LastBytes(pack_4(Or(BV(8388608), d)), 3)

\* pack_4(0xa00000 | t)[-3:]
PackTypeT(t) == LastBytes(pack_4(Or(BV(10485760), t)), 3)

\* pack_8(d << 17 | t)[-5:]
PackTypeDT(d, t) == LastBytes(pack_8(Or(Shl(d, 17), t)), 5)

\* The four precisions of type DTS.
PackTypeDTS(d, t, k) ==
    IF k.nanosecond # None
    THEN LastBytes(
           pack_2_8(Or(Shl(BV(6), 4), Shr(d, 17)),
                    Or(Or(Shl(And(d, BV(131071)), 47), Shl(t, 30)),
                       BV(Get(k.nanosecond)))), 9)
    ELSE IF k.microsecond # None
    THEN pack_8(Or(Or(Or(Shl(BV(5), 60), Shl(d, 39)), Shl(t, 22)),
                   Shl(BV(Get(k.microsecond)), 2)))
    ELSE IF k.millisecond # None
    THEN LastBytes(
           pack_8(Or(Or(Or(Shl(BV(4), 52), Shl(d, 31)), Shl(t, 14)),
                     Shl(BV(Get(k.millisecond)), 4))), 7)
    ELSE LastBytes(pack_8(Or(Or(Shl(BV(7), 44), Shl(d, 23)), Shl(t, 6))), 6)

\* packb(type, **kw).  The signature has no tz_offset parameter: a call that
\* passes one raises TypeError before the body runs.
packb(t, k) ==
    IF k.tz_offset # None THEN Raised("TypeError")
    ELSE LET ty == DetectType(t, k) IN
         IF ty = "ValueError" THEN Raised("ValueError")
         ELSE IF RangeError(k) THEN Raised("ValueError")
         ELSE LET c == Checked(k)
                  d == PackD(c)
                  tt == PackT(c)
              IN  IF ty = "D" THEN Returned("bytes", PackTypeD(d))
                  ELSE IF ty = "T" THEN Returned("bytes", PackTypeT(tt))
                  ELSE IF ty = "DT" THEN Returned("bytes", PackTypeDT(d, tt))
                  ELSE IF ty = "DTS"
                  THEN Returned("bytes", PackTypeDTS(d, tt, k))
                  ELSE Raised("NotImplementedError")

\* ------------------------------------------------------------------------
\* unpackb
\* ------------------------------------------------------------------------

\* The namedtuple Value; the three timezone fields are always None.
Value(year, month, day, hour, minute, second, ms, us, ns) ==
    [year |-> year, month |-> month, day |-> day,
     hour |-> hour, minute |-> minute, second |-> second,
     millisecond |-> ms, microsecond |-> us, nanosecond |-> ns,
     tz_hour |-> None, tz_minute |-> None, tz_offset |-> None]

\* precision = first >> 4 & 0x03
Precision(first) == (first \div 16) % 4

\* An expected length without the case of precision 3 (no sub-second field).
ExpectedLength_Mut(precision) == 7 + precision

\* expected_length = 6 if precision == 3 else 7 + precision
ExpectedLength(precision) == IF precision = 3 THEN 6 ELSE 7 + precision

\* Unpack components: d, t and the stored sub-second field, each optional (a
\* bit vector for d and t, a number for the sub-second fields), or the
\* exception the tag or the length raises.
Components(b) ==
    LET first == b[1]
        none == [err |-> "", d |-> None, t |-> None,
                 millisecond |-> None, microsecond |-> None,
                 nanosecond |-> None]
    IN  IF first <= 63
        THEN IF Len(b) # 5 THEN [none EXCEPT !.err = "ValueError"]
             ELSE LET n == unpack_8(b)
                  IN  [none EXCEPT !.d = Some(And(Shr(n, 17), BV(D_MASK))),
                                   !.t = Some(And(n, BV(T_MASK)))]
        ELSE IF first <= 127
        THEN LET precision == Precision(first)
             IN  IF Len(b) # ExpectedLength(precision)
                 THEN [none EXCEPT !.err = "ValueError"]
                 ELSE LET n == Shr(unpack_8(FirstBytes(b, 6)), 6)
                          s == unpack_4(LastBytes(b, 4))
                          dt == [none EXCEPT
                                   !.d = Some(And(Shr(n, 23), BV(D_MASK))),
                                   !.t = Some(And(Shr(n, 6), BV(T_MASK)))]
                      IN  IF precision = 0
                          THEN [dt EXCEPT !.millisecond =
                                  Some(ToInt(And(Shr(s, 4),
                                                 BV(MILLISECOND_MASK))))]
                          ELSE IF precision = 1
                          THEN [dt EXCEPT !.microsecond =
                                  Some(ToInt(And(Shr(s, 2),
                                                 BV(MICROSECOND_MASK))))]
                          ELSE IF precision = 2
                          THEN [dt EXCEPT !.nanosecond =
                                  Some(ToInt(And(s, BV(NANOSECOND_MASK))))]
                          ELSE dt
        ELSE IF first <= 159
        THEN IF Len(b) # 3 THEN [none EXCEPT !.err = "ValueError"]
             ELSE [none EXCEPT !.d = Some(And(unpack_4(b), BV(D_MASK)))]
        ELSE IF first <= 161
        THEN IF Len(b) # 3 THEN [none EXCEPT !.err = "ValueError"]
             ELSE [none EXCEPT !.t = Some(And(unpack_4(b), BV(T_MASK)))]
        ELSE IF first <= 191 THEN [none EXCEPT !.err = "ValueError"]
        ELSE [none EXCEPT !.err = "NotImplementedError"]

\* A date split that leaves month and day 0-based.
SplitD_Mut(d) ==
    IF d = None THEN [year |-> None, month |-> None, day |-> None]
    ELSE [year  |-> Some(ToInt(And(Shr(Get(d), 9), BV(YEAR_MASK)))),
          month |-> Some(ToInt(And(Shr(Get(d), 5), BV(MONTH_MASK)))),
          day   |-> Some(ToInt(And(Get(d), BV(DAY_MASK))))]

\* Split D and T components.
SplitD(d) ==
    IF d = None THEN [year |-> None, month |-> None, day |-> None]
    ELSE [year  |-> Some(ToInt(And(Shr(Get(d), 9), BV(YEAR_MASK)))),
          month |-> Some(ToInt(And(Shr(Get(d), 5), BV(MONTH_MASK))) + 1),
          day   |-> Some(ToInt(And(Get(d), BV(DAY_MASK))) + 1)]

SplitT(t) ==
    IF t = None THEN [hour |-> None, minute |-> None, second |-> None]
    ELSE [hour   |-> Some(ToInt(And(Shr(Get(t), 12), BV(HOUR_MASK)))),
          minute |-> Some(ToInt(And(Shr(Get(t), 6), BV(MINUTE_MASK)))),
          second |-> Some(ToInt(And(Get(t), BV(SECOND_MASK))))]

\* A division by 1000 that rounds to nearest.
Div1000_Mut(n) == (n + 500) \div 1000

\* n // 1000
Div1000(n) == n \div 1000

\* Sub-second fields are either all None, or none are None.
SubSecond(c) ==
    IF c.millisecond # None
    THEN [millisecond |-> c.millisecond,
          microsecond |-> Some(Get(c.millisecond) * 1000),
          nanosecond  |-> Some(Get(c.millisecond) * 1000 * 1000)]
    ELSE IF c.microsecond # None
    THEN [millisecond |-> Some(Div1000(Get(c.microsecond))),
          microsecond |-> c.microsecond,
          nanosecond  |-> Some(Get(c.microsecond) * 1000)]
    ELSE IF c.nanosecond # None
    THEN [millisecond |-> Some(Div1000(Div1000(Get(c.nanosecond)))),
          microsecond |-> Some(Div1000(Get(c.nanosecond))),
          nanosecond  |-> c.nanosecond]
    ELSE [millisecond |-> None, microsecond |-> None, nanosecond |-> None]

unpackb(b) ==
    IF ~(3 <= Len(b) /\ Len(b) <= 10) THEN Raised("ValueError")
    ELSE LET c == Components(b) IN
         IF c.err # "" THEN Raised(c.err)
         ELSE LET dd == SplitD(c.d)
                  tt == SplitT(c.t)
                  ss == SubSecond(c)
              IN  Returned("Value",
                           Value(dd.year, dd.month, dd.day,
                                 tt.hour, tt.minute, tt.second,
                                 ss.millisecond, ss.microsecond,
                                 ss.nanosecond))

\* ------------------------------------------------------------------------
\* The calls a client makes
\* ------------------------------------------------------------------------

\* The longest byte string handed to unpackb (the code accepts at most 10).
MaxLen == 11

NoFields ==
    [year |-> None, month |-> None, day |-> None,
     hour |-> None, minute |-> None, second |-> None,
     millisecond |-> None, microsecond |-> None, nanosecond |-> None,
     tz_offset |-> None]

\* The values of the test suite, and the least value of every field.
Vector ==
    [NoFields EXCEPT !.year = Some(1983), !.month = Some(1), !.day = Some(15),
                     !.hour = Some(18), !.minute = Some(25),
                     !.second = Some(12)]

Least ==
    [NoFields EXCEPT !.year = Some(0), !.month = Some(1), !.day = Some(1),
                     !.hour = Some(0), !.minute = Some(0), !.second = Some(0)]

\* In-range values of each date and time field, and None.
YearInputs == {None, Some(0), Some(1983), Some(4094)}
MonthInputs == {None, Some(1), Some(12)}
DayInputs == {None, Some(15), Some(31)}
HourInputs == {None, Some(18), Some(23)}
MinuteInputs == {None, Some(25), Some(59)}
SecondInputs == {None, Some(12), Some(60)}

DateTimeInputs ==
    {[NoFields EXCEPT !.year = y, !.month = mo, !.day = d,
                      !.hour = h, !.minute = mi, !.second = s] :
        y \in YearInputs, mo \in MonthInputs, d \in DayInputs,
        h \in HourInputs, mi \in MinuteInputs, s \in SecondInputs}
    \cup {Least}

\* One of the sub-second fields, in range.
OneSubSecond ==
    {[millisecond |-> Some(v), microsecond |-> None, nanosecond |-> None] :
        v \in {0, 123, 999}}
    \cup {[millisecond |-> None, microsecond |-> Some(v), nanosecond |-> None] :
        v \in {0, 123456, 999999}}
    \cup {[millisecond |-> None, microsecond |-> None, nanosecond |-> Some(v)] :
        v \in {0, 123456789, 999999999}}

\* Several of the sub-second fields, in range.
ManySubSeconds ==
    {[millisecond |-> Some(1), microsecond |-> Some(2), nanosecond |-> None],
     [millisecond |-> Some(1), microsecond |-> None, nanosecond |-> Some(3)],
     [millisecond |-> None, microsecond |-> Some(2), nanosecond |-> Some(3)],
     [millisecond |-> Some(1), microsecond |-> Some(2), nanosecond |-> Some(3)]}

WithSubSecond(k, ss) ==
    [k EXCEPT !.millisecond = ss.millisecond,
              !.microsecond = ss.microsecond,
              !.nanosecond = ss.nanosecond]

\* The values next to each end of each field's range.
OutOfRangeValues ==
    [year |-> {-1, 4095}, month |-> {0, 13}, day |-> {0, 32},
     hour |-> {-1, 24}, minute |-> {-1, 60}, second |-> {-1, 61},
     millisecond |-> {-1, 1000}, microsecond |-> {-1, 1000000},
     nanosecond |-> {-1, 1000000000}]

\* One field out of its range, the others none or those of the vector.
OutOfRangeInputs ==
    UNION {{[base EXCEPT ![f] = Some(v)] :
               base \in {NoFields, Vector}, v \in OutOfRangeValues[f]} :
           f \in DOMAIN OutOfRangeValues}

\* A few in-range calls for the types packb does not pack.
FewInputs ==
    {NoFields, Vector, Least,
     [Vector EXCEPT !.millisecond = Some(123)],
     [Vector EXCEPT !.microsecond = Some(123456)],
     [Vector EXCEPT !.nanosecond = Some(123456789)]}

\* The calls of packb: its type and keyword arguments.
Call(t, k) == [type |-> t, kw |-> k]

CallInputs ==
    \* every presence pattern, with and without sub-seconds, type inferred or DTS
    {Call(t, k) : t \in {None, Some("DTS")}, k \in DateTimeInputs}
    \cup {Call(t, WithSubSecond(k, ss)) :
            t \in {None, Some("DTS")}, k \in DateTimeInputs,
            ss \in OneSubSecond \cup ManySubSeconds}
    \* the types without sub-seconds
    \cup {Call(Some(t), k) : t \in {"D", "T", "DT"}, k \in DateTimeInputs}
    \cup {Call(Some(t), WithSubSecond(k, ss)) :
            t \in {"D", "T", "DT"}, k \in {NoFields, Vector},
            ss \in OneSubSecond}
    \* the timezone types and a type that is not one
    \cup {Call(Some(t), k) : t \in {"DTZ", "DTSZ", "X", ""}, k \in FewInputs}
    \cup {Call(t, [k EXCEPT !.tz_offset = Some(60)]) :
            t \in {None, Some("DT"), Some("DTZ"), Some("DTSZ")},
            k \in FewInputs}
    \* a field out of range, under every type
    \cup {Call(t, k) :
            t \in {None} \cup {Some(x) : x \in SUPPORTED_TYPES \cup {"X"}},
            k \in OutOfRangeInputs}

\* Byte strings: any first byte, any length up to MaxLen, a few fillings.
Fillings == {<<0, 0>>, <<255, 0>>, <<17, 37>>, <<200, 91>>}

RawInputs ==
    {[i \in 1..n |-> IF i = 1 THEN f ELSE (p[1] + i * p[2]) % 256] :
        n \in 0..MaxLen, f \in 0..255, p \in Fillings}

\* A client is about to call packb(type, **kw), or unpackb(value).
Init ==
    /\ pc = "call"
    /\ packed = NoCall
    /\ unpacked = NoCall
    /\ \/ /\ op = "packb"
          /\ \E c \in CallInputs : type = c.type /\ kw = c.kw
          /\ value = << >>
       \/ /\ op = "unpackb"
          /\ type = None
          /\ kw = NoFields
          /\ value \in RawInputs

\* packed = packb(type, **kw)
Packb ==
    /\ pc = "call"
    /\ op = "packb"
    /\ packed' = packb(type, kw)
    /\ pc' = "packed"
    /\ UNCHANGED <<op, type, kw, value, unpacked>>

\* unpacked = unpackb(packed), when packb returned
UnpackPacked ==
    /\ pc = "packed"
    /\ packed.kind = "bytes"
    /\ value' = packed.payload
    /\ unpacked' = unpackb(packed.payload)
    /\ pc' = "done"
    /\ UNCHANGED <<op, type, kw, packed>>

\* unpacked = unpackb(value), for any byte string
UnpackRaw ==
    /\ pc = "call"
    /\ op = "unpackb"
    /\ unpacked' = unpackb(value)
    /\ pc' = "done"
    /\ UNCHANGED <<op, type, kw, packed, value>>

Next == Packb \/ UnpackPacked \/ UnpackRaw

Spec == Init /\ [][Next]_vars

\* ------------------------------------------------------------------------
\* The documented format, as the properties below state it
\* ------------------------------------------------------------------------

DateFields == {"year", "month", "day"}

TimeFields == {"hour", "minute", "second"}

SubSecondFields == {"millisecond", "microsecond", "nanosecond"}

PackbFields == DateFields \cup TimeFields \cup SubSecondFields

\* The documented range of each field.
FieldRange ==
    [year |-> 0..4094, month |-> 1..12, day |-> 1..31,
     hour |-> 0..23, minute |-> 0..59, second |-> 0..60,
     millisecond |-> 0..999, microsecond |-> 0..999999,
     nanosecond |-> 0..999999999]

Supplied(k, fields) == \A f \in fields : k[f] # None

InRange(k) == \A f \in PackbFields : k[f] # None => Get(k[f]) \in FieldRange[f]

\* A call of packb with its own parameters only, each supplied one in range.
GoodCall == op = "packb" /\ kw.tz_offset = None /\ InRange(kw)

\* The documented choice of variant: the type given, else the smallest type
\* that holds the supplied fields; for DTS the most precise supplied field.
SelectedVariant(t, k) ==
    LET has(fields) == \E f \in fields : k[f] # None
        base == IF t # None THEN Get(t)
                ELSE IF has(SubSecondFields) THEN "DTS"
                ELSE IF has(DateFields) /\ has(TimeFields) THEN "DT"
                ELSE IF has(TimeFields) /\ ~has(DateFields) THEN "T"
                ELSE "D"
    IN  IF base # "DTS" THEN base
        ELSE IF k.nanosecond # None THEN "DTS-ns"
        ELSE IF k.microsecond # None THEN "DTS-us"
        ELSE IF k.millisecond # None THEN "DTS-ms"
        ELSE "DTS-none"

Variants == {"D", "T", "DT", "DTS-none", "DTS-ms", "DTS-us", "DTS-ns"}

DeclaredLength ==
    [v \in Variants |->
        CASE v = "D" -> 3 [] v = "T" -> 3 [] v = "DT" -> 5
          [] v = "DTS-none" -> 6 [] v = "DTS-ms" -> 7
          [] v = "DTS-us" -> 8 [] v = "DTS-ns" -> 9]

TagBits ==
    [v \in Variants |->
        CASE v = "D" -> <<1, 0, 0>>
          [] v = "T" -> <<1, 0, 1, 0, 0, 0, 0>>
          [] v = "DT" -> <<0, 0>>
          [] v = "DTS-none" -> <<0, 1, 1, 1>>
          [] v = "DTS-ms" -> <<0, 1, 0, 0>>
          [] v = "DTS-us" -> <<0, 1, 0, 1>>
          [] v = "DTS-ns" -> <<0, 1, 1, 0>>]

\* The w bits of n, most significant first.
WireBits(n, w) == [i \in 1..w |-> (n \div (2^(w - i))) % 2]

\* A field on the wire: its sentinel when it is not supplied.
WireField(o, offset, sentinel, w) ==
    WireBits(IF o = None THEN sentinel ELSE Get(o) - offset, w)

WireDate(k) ==
    WireField(k.year, 0, 4095, 12) \o WireField(k.month, 1, 15, 4)
    \o WireField(k.day, 1, 31, 5)

WireTime(k) ==
    WireField(k.hour, 0, 31, 5) \o WireField(k.minute, 0, 63, 6)
    \o WireField(k.second, 0, 63, 6)

Zeros(n) == [i \in 1..n |-> 0]

\* The documented layout of a variant: tag, fields in wire order, padding.
WireLayout(v, k) ==
    TagBits[v]
    \o (IF v = "T" THEN << >> ELSE WireDate(k))
    \o (IF v = "D" THEN << >> ELSE WireTime(k))
    \o (CASE v = "DTS-none" -> Zeros(6)
          [] v = "DTS-ms" -> WireBits(Get(k.millisecond), 10) \o Zeros(4)
          [] v = "DTS-us" -> WireBits(Get(k.microsecond), 20) \o Zeros(2)
          [] v = "DTS-ns" -> WireBits(Get(k.nanosecond), 30)
          [] OTHER -> << >>)

\* A bit string of whole bytes, as bytes.
WireBytes(bits) ==
    [j \in 1..(Len(bits) \div 8) |->
        128 * bits[8 * j - 7] + 64 * bits[8 * j - 6] + 32 * bits[8 * j - 5]
        + 16 * bits[8 * j - 4] + 8 * bits[8 * j - 3] + 4 * bits[8 * j - 2]
        + 2 * bits[8 * j - 1] + bits[8 * j]]

\* What a value decoded from a packed one must hold: the supplied fields of
\* the variant, None elsewhere.
Decoded(k, fields) ==
    [f \in DOMAIN NoFields \cup {"tz_hour", "tz_minute"} |->
        IF f \in fields THEN k[f] ELSE None]

\* ------------------------------------------------------------------------
\* Properties
\* ------------------------------------------------------------------------

\* C1: round trip of fully specified D, T and DT values.  For type D with
\* year, month and day supplied, type T with hour, minute and second
\* supplied, and type DT with all six supplied (every supplied field in
\* range), packb returns bytes and unpackb of them returns exactly the
\* supplied fields of the variant, every other field being None.
C1_RoundTrip ==
    /\ GoodCall
    /\ \/ type = Some("D") /\ Supplied(kw, DateFields)
       \/ type = Some("T") /\ Supplied(kw, TimeFields)
       \/ type = Some("DT") /\ Supplied(kw, DateFields \cup TimeFields)
    => /\ pc # "call" => packed.kind = "bytes"
       /\ pc = "done" =>
            /\ unpacked.kind = "Value"
            /\ unpacked.payload =
                 Decoded(kw, CASE type = Some("D") -> DateFields
                               [] type = Some("T") -> TimeFields
                               [] OTHER -> DateFields \cup TimeFields)

C1_Witness ==
    /\ pc = "done"
    /\ op = "packb"
    /\ type = Some("DT")
    /\ kw = Vector
    /\ unpacked.kind = "Value"
    /\ unpacked.payload.year = Some(1983)
    /\ unpacked.payload.second = Some(12)
    /\ unpacked.payload.millisecond = None

\* C4: the wire layout of packb is bit exact.  For every in-range call of
\* type D, T, DT or DTS (given or inferred) the output has the declared
\* length of the selected variant and is, bit for bit, the variant's tag,
\* then its fields in wire order (the sentinel for a field not supplied),
\* then zero padding.
C4_WireLayout ==
    /\ pc = "packed"
    /\ GoodCall
    /\ type \in {None, Some("D"), Some("T"), Some("DT"), Some("DTS")}
    => LET v == SelectedVariant(type, kw)
           bits == WireLayout(v, kw)
       IN  /\ packed.kind = "bytes"
           /\ Len(packed.payload) = DeclaredLength[v]
           /\ Len(bits) = 8 * DeclaredLength[v]
           /\ packed.payload = WireBytes(bits)

C4_Witness ==
    /\ pc = "packed"
    /\ type = Some("DTS")
    /\ kw.year = None
    /\ kw.minute = Some(59)
    /\ kw.microsecond = Some(999999)
    /\ packed.kind = "bytes"
    /\ Len(packed.payload) = 8
    /\ packed.payload[1] = 95

\* C2: round trip of DTS values at every precision.  For type DTS with the
\* six date and time fields supplied and at most one sub-second field
\* supplied, unpackb of the packed value returns the same date and time
\* fields and the supplied sub-second field (all three None when none was
\* supplied).
C2_RoundTripDTS ==
    /\ pc = "done"
    /\ GoodCall
    /\ type = Some("DTS")
    /\ Supplied(kw, DateFields \cup TimeFields)
    /\ Cardinality({f \in SubSecondFields : kw[f] # None}) <= 1
    => /\ unpacked.kind = "Value"
       /\ \A f \in DateFields \cup TimeFields : unpacked.payload[f] = kw[f]
       /\ \A f \in SubSecondFields :
            kw[f] # None => unpacked.payload[f] = kw[f]
       /\ (\A f \in SubSecondFields : kw[f] = None)
            => \A f \in SubSecondFields : unpacked.payload[f] = None

\* C3: absent fields stay absent.  For every type in D, T, DT, DTS, each
\* date or time field the caller does not supply is None in the value
\* unpacked from the packed one, the sub-second fields are None when none
\* was supplied, and tz_offset is None.
C3_AbsentStaysAbsent ==
    /\ pc = "done"
    /\ GoodCall
    /\ type \in {Some("D"), Some("T"), Some("DT"), Some("DTS")}
    => /\ unpacked.kind = "Value"
       /\ \A f \in DateFields \cup TimeFields :
            kw[f] = None => unpacked.payload[f] = None
       /\ (\A f \in SubSecondFields : kw[f] = None)
            => \A f \in SubSecondFields : unpacked.payload[f] = None
       /\ unpacked.payload.tz_offset = None

\* The tags and lengths unpackb is documented to accept.
Accepts(b) ==
    /\ Len(b) >= 1
    /\ \/ b[1] \in 0..63 /\ Len(b) = 5
       \/ b[1] \in 64..79 /\ Len(b) = 7
       \/ b[1] \in 80..95 /\ Len(b) = 8
       \/ b[1] \in 96..111 /\ Len(b) = 9
       \/ b[1] \in 112..127 /\ Len(b) = 6
       \/ b[1] \in 128..159 /\ Len(b) = 3
       \/ b[1] \in 160..161 /\ Len(b) = 3

C6_TimezoneSupported ==
    /\ (pc # "call" /\ op = "packb" /\ InRange(kw) /\ type = Some("DTZ"))
         => packed.kind = "bytes" /\ Len(packed.payload) = 6
    /\ (pc # "call" /\ op = "packb" /\ InRange(kw) /\ type = Some("DTSZ"))
         => packed.kind = "bytes" /\ Len(packed.payload) \in 7..10
    /\ pc # "call" => packed.kind # "NotImplementedError"
    /\ pc = "done" => unpacked.kind # "NotImplementedError"

\* C7: out-of-range rejection on encode.  Under every type, given or
\* inferred, a supplied field outside its range makes packb raise
\* ValueError and return nothing; with every supplied field in range and a
\* type among D, T, DT, DTS (given or inferred) packb returns bytes; a type
\* name outside D, T, DT, DTZ, DTS, DTSZ raises ValueError.
C7_RangeRejection ==
    (pc # "call" /\ op = "packb" /\ kw.tz_offset = None) =>
       /\ ~InRange(kw) => packed = Raised("ValueError")
       /\ (InRange(kw)
           /\ type \in {None, Some("D"), Some("T"), Some("DT"), Some("DTS")})
            => packed.kind = "bytes"
       /\ (type # None
           /\ Get(type) \notin {"D", "T", "DT", "DTZ", "DTS", "DTSZ"})
            => packed = Raised("ValueError")

C7_Witness ==
    /\ pc = "packed"
    /\ type = Some("DT")
    /\ kw.year = Some(1983)
    /\ kw.second = Some(61)
    /\ packed = Raised("ValueError")

\* C8: type inference when no type is given.  DTS if a sub-second field is
\* supplied (nanosecond over microsecond over millisecond: 9, 8, 7 bytes),
\* else DT with a date field and a time field (5 bytes), else D with date
\* fields only, else T with time fields only, else D (3 bytes each); the
\* tag of the output is that of the type.
C8_TypeInference ==
    (pc = "packed" /\ GoodCall /\ type = None) =>
       /\ packed.kind = "bytes"
       /\ LET b == packed.payload
              has_d == \E f \in DateFields : kw[f] # None
              has_t == \E f \in TimeFields : kw[f] # None
          IN  IF kw.nanosecond # None
              THEN Len(b) = 9 /\ b[1] \div 16 = 6
              ELSE IF kw.microsecond # None
              THEN Len(b) = 8 /\ b[1] \div 16 = 5
              ELSE IF kw.millisecond # None
              THEN Len(b) = 7 /\ b[1] \div 16 = 4
              ELSE IF has_d /\ has_t THEN Len(b) = 5 /\ b[1] \div 64 = 0
              ELSE IF has_d THEN Len(b) = 3 /\ b[1] \div 32 = 4
              ELSE IF has_t THEN Len(b) = 3 /\ b[1] \div 2 = 80
              ELSE Len(b) = 3 /\ b[1] \div 32 = 4

C8_Witness ==
    /\ pc = "packed"
    /\ type = None
    /\ kw = [NoFields EXCEPT !.hour = Some(18)]
    /\ packed.kind = "bytes"
    /\ Len(packed.payload) = 3
    /\ packed.payload[1] = 161

\* C9: sub-second consistency of every decoded value.  In every Value
\* unpackb returns, millisecond, microsecond and nanosecond are all None or
\* all set, with microsecond = nanosecond div 1000 and millisecond =
\* microsecond div 1000; they are None exactly for D, T, DT and DTS without
\* a sub-second field.
C9_SubSecondConsistency ==
    (pc = "done" /\ unpacked.kind = "Value") =>
       LET ms == unpacked.payload.millisecond
           us == unpacked.payload.microsecond
           ns == unpacked.payload.nanosecond
       IN  /\ \/ ms = None /\ us = None /\ ns = None
              \/ ms # None /\ us # None /\ ns # None
           /\ ns # None =>
                /\ Get(us) = Get(ns) \div 1000
                /\ Get(ms) = Get(us) \div 1000
           /\ ns = None <=>
                value[1] \in (0..63) \cup (112..127) \cup (128..161)

C9_Witness ==
    /\ pc = "done"
    /\ op = "unpackb"
    /\ unpacked.kind = "Value"
    /\ value[1] \in 96..111
    /\ unpacked.payload.nanosecond # None
    /\ Get(unpacked.payload.nanosecond) % 1000 >= 500
    /\ Get(unpacked.payload.microsecond) % 1000 >= 500

\* C10: decoder range validation.  Every field that is not None of every
\* Value unpackb returns, for any accepted byte string, lies in the field's
\* range.
C10_DecodedInRange ==
    (pc = "done" /\ unpacked.kind = "Value") =>
       \A f \in PackbFields :
          unpacked.payload[f] # None
             => Get(unpacked.payload[f]) \in FieldRange[f]

====
